---- MODULE Spec2Model ----
(***************************************************************************)
(* VozFinancas: the voice-driven expense tracker (client App component    *)
(* of src/unnamed/part_000).  The model follows the React component:      *)
(* useState values are the committed state, useRef values are the shared  *)
(* mutable slots, and every invocation of startRecording is an "attempt"  *)
(* with its own locals (stream, processor, session) and its own closure   *)
(* over the state values of the render in which it was invoked.           *)
(***************************************************************************)
EXTENDS Integers, Sequences, FiniteSets, TLC

(* ---------------------------------------------------------------------- *)
(* Bounds of the model                                                    *)
(* ---------------------------------------------------------------------- *)
\* invocations of startRecording that get past the capture-API check
MaxAttempts == 2
\* silence timers ever created with setTimeout
MaxTimers == 2

\* sessions started in the behaviours of the store and playback specifications
MaxSessions == 1
\* audio chunks the assistant ever sends
MaxChunks == 4
\* inlineData parts in one serverContent message
MaxParts == 2
\* values of Date.now() the clock runs through
MaxNow == 2
\* calendar days the clock runs through (day 0 is the day of mount)
MaxDay == 1
\* function calls in one toolCall message
MaxBatch == 2
\* rows the server inserts at most
MaxRows == 2

Attempts == 1..MaxAttempts
NoRef == 0

(* ---------------------------------------------------------------------- *)
(* Expenses and tool calls                                                *)
(* ---------------------------------------------------------------------- *)
\* the add_expense arguments the assistant sends: amount (counted in whole
\* currency units), description, category
AddArgs == {<<40, "cafe", "Alimentacao">>, <<60, "onibus", "Transporte">>}

\* an id no expense ever gets (Date.now() is never negative)
NoSuchId == -1

\* interface Expense; date is the day part of the ISO timestamp
MkExpense(id, amount, description, category, day) ==
    [id |-> id, amount |-> amount, description |-> description,
     category_name |-> category, date |-> day]

\* what localStorage may hold when the app is mounted
InitialStores ==
    {<<MkExpense(0, 25, "almoco", "Alimentacao", 0)>>}

\* functionCalls entries: name and args (fields a call does not use are 0 / "")
AddCalls ==
    {[name |-> "add_expense", amount |-> x[1], description |-> x[2],
      category |-> x[3], id |-> 0] : x \in AddArgs}
DeleteCalls ==
    {[name |-> "delete_expense", amount |-> 0, description |-> "", category |-> "",
      id |-> i] : i \in (0..MaxNow) \cup {NoSuchId}}
ReadCalls ==
    {[name |-> n, amount |-> 0, description |-> "", category |-> "", id |-> 0] :
        n \in {"get_expenses", "get_summary"}}
Calls == AddCalls \cup DeleteCalls \cup ReadCalls

\* add_expense calls whose arguments are not usable: no description, no category
InvalidAddCalls ==
    {[name |-> "add_expense", amount |-> 40, description |-> "",
      category |-> "Alimentacao", id |-> 0],
     [name |-> "add_expense", amount |-> 40, description |-> "cafe",
      category |-> "", id |-> 0]}

\* a call whose name is none of the four declared tools
UnknownCalls ==
    {[name |-> "unknown_tool", amount |-> 0, description |-> "", category |-> "", id |-> 0]}

AllCalls == Calls \cup InvalidAddCalls \cup UnknownCalls

NoSummary == [daily |-> 0, byCategory |-> <<>>]

\* the values "result" takes in onmessage
ResultAdded(e) == [kind |-> "added", status |-> "success", items |-> <<e>>, summary |-> NoSummary]
ResultList(list) == [kind |-> "list", status |-> "", items |-> list, summary |-> NoSummary]
ResultAck == [kind |-> "ack", status |-> "success", items |-> <<>>, summary |-> NoSummary]
ResultSummary(sm) == [kind |-> "summary", status |-> "", items |-> <<>>, summary |-> sm]
ResultUndefined == [kind |-> "undefined", status |-> "", items |-> <<>>, summary |-> NoSummary]

\* sendToolResponse as the assistant sees it: n counts the responses sent for
\* the message in hand, id and name are those of functionResponses[0] (the
\* id of a call is its position in its message) and kind tells the result
NothingSent == [n |-> 0, id |-> -1, name |-> "", kind |-> ""]

\* no replication request is waiting for the server.  A request holds the
\* method, the id of the path (DELETE), the fields of the body the server
\* reads (POST) and, outside the request proper, the id of the local expense
\* it replicates
NoRequest ==
    [method |-> "", id |-> NoSuchId, amount |-> 0, description |-> "",
     category |-> "", of |-> NoSuchId]

(* ---------------------------------------------------------------------- *)
(* Status texts (setStatus arguments)                                     *)
(* ---------------------------------------------------------------------- *)
StatusIdle == "Pronto para ouvir"
StatusRequesting == "Solicitando microfone..."
StatusConnecting == "Conectando ao assistente..."
StatusListening == "Ouvindo..."
StatusConnError == "Erro na conexao com o assistente"
StatusDenied == "Permissao de microfone negada. Ative nas configuracoes do navegador."
StatusUnsupported == "Seu navegador nao suporta gravacao de audio."
StatusMicError == "Erro ao acessar microfone. Verifique as permissoes."

\* err.name values getUserMedia can reject with
GumErrors == {"NotAllowedError", "NotFoundError"}

VARIABLES
    isRecording,      \* useState isRecording
    status,           \* useState status
    audioContextRef,  \* TRUE once the shared AudioContext was created
    streamRef,        \* attempt whose MediaStream the ref holds, or NoRef
    processorRef,     \* attempt whose ScriptProcessorNode the ref holds, or NoRef
    sessionRef,       \* attempt whose session the ref holds, or NoRef
    silenceTimerRef,  \* id of the timer the ref holds, or NoRef
    timers,           \* pending setTimeout timers: records [id, owner]
    nextTimer,        \* next timer id setTimeout returns
    nAttempts,        \* startRecording invocations so far
    pc,               \* per attempt: where its async body stands
    stream,           \* per attempt: "none" | "live" | "stopped" (its tracks)
    sess,             \* per attempt: "none" | "connecting" | "open" | "closing" | "closed"
    srcAnalyser,      \* per attempt: edge source -> analyser connected
    srcProc,          \* per attempt: edge source -> processor connected
    procDest,         \* per attempt: edge processor -> destination connected
    fired,            \* per attempt: silence timeouts of its processor that fired
    lateSend,         \* per attempt: sendRealtimeInput was called on its session when not open
    released,         \* how often each resource was released (see NoReleases)
    expenses,         \* useState expenses
    summary,          \* useState summary
    stored,           \* localStorage 'vozfinancas_expenses'
    now,              \* Date.now()
    today,            \* the day part of new Date().toISOString()
    cExpenses,        \* per attempt: the expenses its closures captured
    cSummary,         \* per attempt: the summary its closures captured
    audioQueue,       \* audioQueue.current: the chunks waiting, oldest first
    isPlaying,        \* isPlaying.current
    nextChunk,        \* the number of the next chunk the assistant sends
    rendering,        \* chunks whose buffer source was started and has not ended
    rendered,         \* the chunks source.start() was called for, in call order
    dropped,          \* chunks an interruption removed from the queue
    lastResponse,     \* useState lastResponse
    handling,         \* attempt whose onmessage is in its functionCalls loop, or NoRef
    callIdx,          \* calls of the message in hand already handled
    sent,             \* the latest sendToolResponse: see NothingSent
    inflight,         \* the kinds of replication requests whose fetch has not settled
    outbox,           \* the latest replication request, until the server handled it
    isLocked,         \* useState isLocked
    isSetupNeeded,    \* useState isSetupNeeded
    storedPassword,   \* localStorage 'vozfinancas_password' ("" when absent)
    remote,           \* server: the rows of the table expenses
    rowid             \* server: the largest AUTOINCREMENT id given so far

vars == <<isRecording, status, audioContextRef, streamRef, processorRef, sessionRef,
          silenceTimerRef, timers, nextTimer, nAttempts, pc, stream, sess,
          srcAnalyser, srcProc, procDest, fired, lateSend, released,
          expenses, summary, stored, now, today, cExpenses, cSummary,
          audioQueue, isPlaying, nextChunk, rendering, rendered, dropped,
          lastResponse, handling, callIdx, sent, inflight, outbox,
          isLocked, isSetupNeeded, storedPassword, remote, rowid>>

sessionVars == <<isRecording, status, audioContextRef, streamRef, processorRef,
                 sessionRef, silenceTimerRef, timers, nextTimer, nAttempts, pc,
                 stream, sess, srcAnalyser, srcProc, procDest, fired, lateSend,
                 released>>

storeVars == <<expenses, summary, stored, handling, callIdx>>

playbackVars == <<audioQueue, isPlaying, nextChunk, rendering, rendered, dropped,
                  lastResponse>>

clockVars == <<now, today>>

netVars == <<sent, inflight, outbox>>

gateVars == <<isLocked, isSetupNeeded, storedPassword>>

serverVars == <<remote, rowid>>

closureVars == <<cExpenses, cSummary>>

(* ---------------------------------------------------------------------- *)
(* updateSummary                                                          *)
(* ---------------------------------------------------------------------- *)
\* allExpenses.filter(e => e.date.startsWith(today)).reduce((sum, e) => sum + e.amount, 0)
RECURSIVE DailyTotal(_, _)
DailyTotal(allExpenses, day) ==
    IF allExpenses = <<>> THEN 0
    ELSE LET e == allExpenses[Len(allExpenses)]
             rest == DailyTotal(SubSeq(allExpenses, 1, Len(allExpenses) - 1), day)
         IN  IF e.date = day THEN rest + e.amount ELSE rest

\* a category total that keeps the last amount instead of accumulating
OverwriteCategory(entries, e) ==
    IF \E i \in 1..Len(entries) : entries[i].name = e.category_name
    THEN [i \in 1..Len(entries) |->
            IF entries[i].name = e.category_name
            THEN [name |-> entries[i].name, total |-> e.amount]
            ELSE entries[i]]
    ELSE Append(entries, [name |-> e.category_name, total |-> e.amount])

\* categories[e.category_name] = (categories[e.category_name] || 0) + e.amount,
\* on the entries in insertion order
AddToCategory(entries, e) ==
    IF \E i \in 1..Len(entries) : entries[i].name = e.category_name
    THEN [i \in 1..Len(entries) |->
            IF entries[i].name = e.category_name
            THEN [name |-> entries[i].name, total |-> entries[i].total + e.amount]
            ELSE entries[i]]
    ELSE Append(entries, [name |-> e.category_name, total |-> e.amount])

\* allExpenses.forEach(...) then Object.entries(categories).map(...)
RECURSIVE CategoryTotals(_)
CategoryTotals(allExpenses) ==
    IF allExpenses = <<>> THEN <<>>
    ELSE AddToCategory(CategoryTotals(SubSeq(allExpenses, 1, Len(allExpenses) - 1)),
                       allExpenses[Len(allExpenses)])

updateSummary(allExpenses, day) ==
    [daily |-> DailyTotal(allExpenses, day), byCategory |-> CategoryTotals(allExpenses)]

\* the release calls made so far: close() per session, track.stop() per
\* stream, disconnect() per processor, clearTimeout() per timer id
NoReleases ==
    [close |-> [a \in Attempts |-> 0],
     tracks |-> [a \in Attempts |-> 0],
     disconnect |-> [a \in Attempts |-> 0],
     clear |-> [t \in 1..MaxTimers |-> 0]]

Init ==
    /\ isRecording = FALSE
    /\ status = StatusIdle
    /\ audioContextRef = FALSE
    /\ streamRef = NoRef
    /\ processorRef = NoRef
    /\ sessionRef = NoRef
    /\ silenceTimerRef = NoRef
    /\ timers = {}
    /\ nextTimer = 1
    /\ nAttempts = 0
    /\ pc = [a \in Attempts |-> "unused"]
    /\ stream = [a \in Attempts |-> "none"]
    /\ sess = [a \in Attempts |-> "none"]
    /\ srcAnalyser = [a \in Attempts |-> FALSE]
    /\ srcProc = [a \in Attempts |-> FALSE]
    /\ procDest = [a \in Attempts |-> FALSE]
    /\ fired = [a \in Attempts |-> 0]
    /\ lateSend = [a \in Attempts |-> FALSE]
    /\ released = NoReleases
    /\ now = 1
    /\ today = 0
    /\ stored \in InitialStores
    /\ expenses = stored
    /\ summary = updateSummary(stored, 0)
    /\ cExpenses = [a \in Attempts |-> <<>>]
    /\ cSummary = [a \in Attempts |-> updateSummary(<<>>, 0)]
    /\ audioQueue = <<>>
    /\ isPlaying = FALSE
    /\ nextChunk = 1
    /\ rendering = {}
    /\ rendered = <<>>
    /\ dropped = {}
    /\ lastResponse = ""
    /\ handling = NoRef
    /\ callIdx = 0
    /\ sent = NothingSent
    /\ inflight = {}
    /\ outbox = NoRequest
    /\ isLocked = TRUE
    /\ storedPassword = ""
    /\ isSetupNeeded = (storedPassword = "")
    /\ remote = {}
    /\ rowid = 0

(* ---------------------------------------------------------------------- *)
(* stopRecording                                                          *)
(* ---------------------------------------------------------------------- *)
\* streamRef.current.getTracks().forEach(track => track.stop())
StopTracks(st) ==
    IF streamRef # NoRef THEN [st EXCEPT ![streamRef] = "stopped"] ELSE st

\* processorRef.current.disconnect(): disconnects the outputs of the processor
DisconnectProcessor(pd) ==
    IF processorRef # NoRef THEN [pd EXCEPT ![processorRef] = FALSE] ELSE pd

\* clearTimeout(silenceTimerRef.current)
ClearSilenceTimer(ts) == {t \in ts : t.id # silenceTimerRef}

\* sessionRef.current.close(): an open socket goes to closing, else no effect
CloseSession(se) ==
    IF sessionRef # NoRef /\ se[sessionRef] = "open"
    THEN [se EXCEPT ![sessionRef] = "closing"]
    ELSE se

\* rel with one more call for slot, when the ref holds something
Counted(rel, ref) ==
    IF ref # NoRef THEN [rel EXCEPT ![ref] = @ + 1] ELSE rel

\* the release calls of one run of stopRecording: each guarded by its ref
ReleaseCalls(rel) ==
    [close |-> Counted(rel.close, sessionRef),
     tracks |-> Counted(rel.tracks, streamRef),
     disconnect |-> Counted(rel.disconnect, processorRef),
     clear |-> Counted(rel.clear, silenceTimerRef)]

\* a stopRecording that leaves the session in its ref
stopRecordingKeepsSession(se, ts) ==
    /\ stream' = StopTracks(stream)
    /\ streamRef' = NoRef
    /\ procDest' = DisconnectProcessor(procDest)
    /\ processorRef' = NoRef
    /\ timers' = ClearSilenceTimer(ts)
    /\ silenceTimerRef' = NoRef
    /\ sess' = CloseSession(se)
    /\ sessionRef' = sessionRef
    /\ released' = ReleaseCalls(released)
    /\ isRecording' = FALSE
    /\ status' = StatusIdle

\* the body of stopRecording, on the sessions as they stand (se) and the
\* pending timers as they stand (ts) when it is called
stopRecording(se, ts) ==
    /\ stream' = StopTracks(stream)
    /\ streamRef' = NoRef
    /\ procDest' = DisconnectProcessor(procDest)
    /\ processorRef' = NoRef
    /\ timers' = ClearSilenceTimer(ts)
    /\ silenceTimerRef' = NoRef
    /\ sess' = CloseSession(se)
    /\ sessionRef' = NoRef
    /\ released' = ReleaseCalls(released)
    /\ isRecording' = FALSE
    /\ status' = StatusIdle

(* ---------------------------------------------------------------------- *)
(* startRecording                                                         *)
(* ---------------------------------------------------------------------- *)
\* click on the microphone button while the rendered isRecording is true
StopClick ==
    /\ isRecording
    /\ stopRecording(sess, timers)
    /\ UNCHANGED <<audioContextRef, nextTimer, nAttempts, pc, srcAnalyser, srcProc,
                   fired, lateSend>>
    /\ UNCHANGED <<storeVars, netVars, clockVars, closureVars, playbackVars, gateVars, serverVars>>

\* click while isRecording is false, navigator.mediaDevices missing:
\* throw NOT_SUPPORTED, caught in the same task
StartNotSupported ==
    /\ ~isRecording
    /\ status' = StatusUnsupported
    /\ UNCHANGED <<isRecording, audioContextRef, streamRef, processorRef, sessionRef,
                   silenceTimerRef, timers, nextTimer, nAttempts, pc, stream, sess,
                   srcAnalyser, srcProc, procDest, fired, lateSend, released>>
    /\ UNCHANGED <<storeVars, netVars, clockVars, closureVars, playbackVars, gateVars, serverVars>>

\* click while isRecording is false: the body runs up to the first await.
\* The callbacks this invocation creates close over the expenses and summary
\* of the render the click belongs to.
StartClick(limit) ==
    /\ ~isRecording
    /\ nAttempts < limit
    /\ nAttempts' = nAttempts + 1
    /\ pc' = [pc EXCEPT ![nAttempts + 1] = "gumAdvanced"]
    /\ status' = StatusRequesting
    /\ UNCHANGED <<isRecording, audioContextRef, streamRef, processorRef, sessionRef,
                   silenceTimerRef, timers, nextTimer, stream, sess,
                   srcAnalyser, srcProc, procDest, fired, lateSend, released>>
    /\ cExpenses' = [cExpenses EXCEPT ![nAttempts + 1] = expenses]
    /\ cSummary' = [cSummary EXCEPT ![nAttempts + 1] = summary]
    /\ UNCHANGED <<storeVars, netVars, clockVars, playbackVars, gateVars, serverVars>>

\* createMediaStreamSource .. ai.live.connect(...) up to its await
GraphSetup(a) ==
    /\ srcAnalyser' = [srcAnalyser EXCEPT ![a] = TRUE]
    /\ processorRef' = a
    /\ status' = StatusConnecting
    /\ sess' = [sess EXCEPT ![a] = "connecting"]
    /\ pc' = [pc EXCEPT ![a] = "connecting"]

\* the body from "streamRef.current = stream" on, once getUserMedia resolved
AfterStream(a, ctxAvailable, suspended) ==
    /\ stream' = [stream EXCEPT ![a] = "live"]
    /\ streamRef' = a
    /\ IF ~ctxAvailable
       THEN \* throw AUDIO_CONTEXT_NOT_SUPPORTED, caught
            /\ status' = StatusUnsupported
            /\ pc' = [pc EXCEPT ![a] = "failed"]
            /\ UNCHANGED <<audioContextRef, processorRef, sess, srcAnalyser>>
       ELSE /\ audioContextRef' = TRUE
            /\ IF suspended
               THEN /\ pc' = [pc EXCEPT ![a] = "resume"]
                    /\ UNCHANGED <<status, processorRef, sess, srcAnalyser>>
               ELSE GraphSetup(a)
    /\ UNCHANGED <<isRecording, sessionRef, silenceTimerRef, timers, nextTimer,
                   nAttempts, srcProc, procDest, fired, lateSend, released>>
    /\ UNCHANGED <<storeVars, netVars, clockVars, closureVars, playbackVars, gateVars, serverVars>>

\* getUserMedia with the advanced constraints resolves
GumAdvancedOk(a, ctxAvailable, suspended) ==
    /\ pc[a] = "gumAdvanced"
    /\ AfterStream(a, ctxAvailable, suspended)

\* getUserMedia with the advanced constraints rejects: fall back to audio:true
GumAdvancedFail(a) ==
    /\ pc[a] = "gumAdvanced"
    /\ pc' = [pc EXCEPT ![a] = "gumSimple"]
    /\ UNCHANGED <<isRecording, status, audioContextRef, streamRef, processorRef,
                   sessionRef, silenceTimerRef, timers, nextTimer, nAttempts, stream,
                   sess, srcAnalyser, srcProc, procDest, fired, lateSend, released>>
    /\ UNCHANGED <<storeVars, netVars, clockVars, closureVars, playbackVars, gateVars, serverVars>>

\* the fallback getUserMedia resolves
GumSimpleOk(a, ctxAvailable, suspended) ==
    /\ pc[a] = "gumSimple"
    /\ AfterStream(a, ctxAvailable, suspended)

\* a catch block that tells no error name from another
CatchStatusOneText(errName) == StatusMicError

\* the status the catch block of startRecording sets for an error name
CatchStatus(errName) ==
    IF errName = "NotAllowedError" \/ errName = "PermissionDeniedError"
    THEN StatusDenied
    ELSE StatusMicError

\* the fallback getUserMedia rejects with err.name = errName: caught by the
\* outer catch
GumSimpleRejects(a, errName) ==
    /\ pc[a] = "gumSimple"
    /\ status' = CatchStatus(errName)
    /\ pc' = [pc EXCEPT ![a] = "failed"]
    /\ UNCHANGED <<isRecording, audioContextRef, streamRef, processorRef,
                   sessionRef, silenceTimerRef, timers, nextTimer, nAttempts, stream,
                   sess, srcAnalyser, srcProc, procDest, fired, lateSend, released>>
    /\ UNCHANGED <<storeVars, netVars, clockVars, closureVars, playbackVars, gateVars, serverVars>>

\* the fallback getUserMedia rejects, with any error name
GumSimpleFail(a) == \E errName \in GumErrors : GumSimpleRejects(a, errName)

\* audioContext.resume() resolves
ResumeDone(a) ==
    /\ pc[a] = "resume"
    /\ GraphSetup(a)
    /\ UNCHANGED <<isRecording, audioContextRef, streamRef, sessionRef,
                   silenceTimerRef, timers, nextTimer, nAttempts, stream,
                   srcProc, procDest, fired, lateSend, released>>
    /\ UNCHANGED <<storeVars, netVars, clockVars, closureVars, playbackVars, gateVars, serverVars>>

\* ai.live.connect rejects before the socket opened: caught by the outer catch
ConnectReject(a) ==
    /\ pc[a] = "connecting"
    /\ sess[a] = "connecting"
    /\ sess' = [sess EXCEPT ![a] = "closed"]
    /\ pc' = [pc EXCEPT ![a] = "failed"]
    /\ status' = CatchStatus("Error")
    /\ UNCHANGED <<isRecording, audioContextRef, streamRef, processorRef,
                   sessionRef, silenceTimerRef, timers, nextTimer, nAttempts, stream,
                   srcAnalyser, srcProc, procDest, fired, lateSend, released>>
    /\ UNCHANGED <<storeVars, netVars, clockVars, closureVars, playbackVars, gateVars, serverVars>>

\* callbacks.onopen
OnOpen(a) ==
    /\ sess[a] = "connecting"
    /\ sess' = [sess EXCEPT ![a] = "open"]
    /\ isRecording' = TRUE
    /\ status' = StatusListening
    /\ UNCHANGED <<audioContextRef, streamRef, processorRef, sessionRef,
                   silenceTimerRef, timers, nextTimer, nAttempts, pc, stream,
                   srcAnalyser, srcProc, procDest, fired, lateSend, released>>
    /\ UNCHANGED <<storeVars, netVars, clockVars, closureVars, playbackVars, gateVars, serverVars>>

\* ai.live.connect resolves (after the socket opened): the rest of the body
ConnectResolve(a) ==
    /\ pc[a] = "connecting"
    /\ sess[a] \in {"open", "closing", "closed"}
    /\ sessionRef' = a
    /\ srcProc' = [srcProc EXCEPT ![a] = TRUE]
    /\ procDest' = [procDest EXCEPT ![a] = TRUE]
    /\ pc' = [pc EXCEPT ![a] = "wired"]
    /\ UNCHANGED <<isRecording, status, audioContextRef, streamRef, processorRef,
                   silenceTimerRef, timers, nextTimer, nAttempts, stream, sess,
                   srcAnalyser, fired, lateSend, released>>
    /\ UNCHANGED <<storeVars, netVars, clockVars, closureVars, playbackVars, gateVars, serverVars>>

(* ---------------------------------------------------------------------- *)
(* Session lifecycle callbacks                                            *)
(* ---------------------------------------------------------------------- *)
\* callbacks.onclose: the close event of the socket, after a remote close,
\* a failed open or a local close()
OnClose(a) ==
    /\ sess[a] \in {"connecting", "open", "closing"}
    /\ stopRecording([sess EXCEPT ![a] = "closed"], timers)
    /\ UNCHANGED <<audioContextRef, nextTimer, nAttempts, pc, srcAnalyser, srcProc,
                   fired, lateSend>>
    /\ UNCHANGED <<storeVars, netVars, clockVars, closureVars, playbackVars, gateVars, serverVars>>

\* an onerror that shows the error and does not stop the recording
OnErrorStatusOnly(a) ==
    /\ sess[a] \in {"connecting", "open"}
    /\ sess' = [sess EXCEPT ![a] = "closing"]
    /\ status' = StatusConnError
    /\ UNCHANGED <<isRecording, audioContextRef, streamRef, processorRef, sessionRef,
                   silenceTimerRef, timers, nextTimer, nAttempts, pc, stream,
                   srcAnalyser, srcProc, procDest, fired, lateSend, released>>
    /\ UNCHANGED <<storeVars, netVars, clockVars, closureVars, playbackVars, gateVars, serverVars>>

\* callbacks.onerror: the error event of the socket (its close event follows)
OnError(a) ==
    /\ sess[a] \in {"connecting", "open"}
    /\ stopRecording([sess EXCEPT ![a] = "closing"], timers)
    /\ UNCHANGED <<audioContextRef, nextTimer, nAttempts, pc, srcAnalyser, srcProc,
                   fired, lateSend>>
    /\ UNCHANGED <<storeVars, netVars, clockVars, closureVars, playbackVars, gateVars, serverVars>>

(* ---------------------------------------------------------------------- *)
(* Capture: processor.onaudioprocess and the silence timer                *)
(* ---------------------------------------------------------------------- *)
\* the silence branch of onaudioprocess (average < 15)
SilentBlock(a) ==
    /\ IF silenceTimerRef = NoRef
       THEN /\ nextTimer <= MaxTimers
            /\ timers' = timers \cup {[id |-> nextTimer, owner |-> a]}
            /\ silenceTimerRef' = nextTimer
            /\ nextTimer' = nextTimer + 1
       ELSE UNCHANGED <<timers, silenceTimerRef, nextTimer>>
    /\ UNCHANGED released

\* the sound branch of onaudioprocess (average >= 15)
LoudBlock ==
    /\ timers' = ClearSilenceTimer(timers)
    /\ silenceTimerRef' = NoRef
    /\ released' = [released EXCEPT !.clear = Counted(@, silenceTimerRef)]
    /\ UNCHANGED nextTimer

\* one audioprocess event of attempt a's processor.  The event is dispatched
\* while the node has an input or an output connected; a stopped stream
\* delivers silence.
AudioProcess(a) ==
    /\ pc[a] = "wired"
    /\ srcProc[a] \/ procDest[a]
    /\ \E silent \in BOOLEAN :
          /\ stream[a] # "live" => silent
          /\ IF silent THEN SilentBlock(a) ELSE LoudBlock
    /\ lateSend' = [lateSend EXCEPT ![a] = @ \/ sess[a] # "open"]
    /\ UNCHANGED <<isRecording, status, audioContextRef, streamRef, processorRef,
                   sessionRef, nAttempts, pc, stream, sess, srcAnalyser, srcProc,
                   procDest, fired>>
    /\ UNCHANGED <<storeVars, netVars, clockVars, closureVars, playbackVars, gateVars, serverVars>>

\* a pending silence timer expires: its callback calls stopRecording
TimerFire(t) ==
    /\ t \in timers
    /\ fired' = [fired EXCEPT ![t.owner] = @ + 1]
    /\ stopRecording(sess, timers \ {t})
    /\ UNCHANGED <<audioContextRef, nextTimer, nAttempts, pc, srcAnalyser, srcProc,
                   lateSend>>
    /\ UNCHANGED <<storeVars, netVars, clockVars, closureVars, playbackVars, gateVars, serverVars>>

(* ---------------------------------------------------------------------- *)
(* Local store: saveLocalData, the tool-call executor, the delete button  *)
(* ---------------------------------------------------------------------- *)
\* the store after saveLocalData(newExpenses): localStorage.setItem,
\* setExpenses, updateSummary (which reads the clock)
saveLocalData(newExpenses) ==
    [expenses |-> newExpenses,
     summary |-> updateSummary(newExpenses, today),
     stored |-> newExpenses]

\* expenses.filter(e => e.id !== id)
WithoutId(list, id) ==
    LET Keep(e) == e.id # id IN SelectSeq(list, Keep)

\* the value of "result" for one functionCalls entry in the onmessage callback
\* attempt a created, which sendToolResponse sends back under the name and
\* the id of the call: expenses and summary are the values the callback closed over
CallResult(a, call) ==
    IF call.name = "add_expense" THEN
        ResultAdded(MkExpense(now, call.amount, call.description, call.category, today))
    ELSE IF call.name = "get_expenses" THEN ResultList(cExpenses[a])
    ELSE IF call.name = "delete_expense" THEN ResultAck
    ELSE IF call.name = "get_summary" THEN ResultSummary(cSummary[a])
    ELSE ResultUndefined

\* the updated list built from the current collection instead of the captured one
CallUpdatedCurrent(a, call) ==
    IF call.name = "add_expense"
    THEN Append(expenses,
                MkExpense(now, call.amount, call.description, call.category, today))
    ELSE WithoutId(expenses, call.id)

\* the list the add_expense / delete_expense branch hands to saveLocalData
CallUpdated(a, call) ==
    IF call.name = "add_expense"
    THEN Append(cExpenses[a],
                MkExpense(now, call.amount, call.description, call.category, today))
    ELSE WithoutId(cExpenses[a], call.id)

Mutating(call) == call.name \in {"add_expense", "delete_expense"}

\* a response that always carries the id of the first call of the message
ToolResponseFirstId(a, call, idx) ==
    [id |-> 0, name |-> call.name, kind |-> CallResult(a, call).kind]

\* functionResponses[0] of the sendToolResponse for the call at position idx
\* of its message: {name: call.name, id: call.id, response: {result}}
ToolResponse(a, call, idx) ==
    [id |-> idx, name |-> call.name, kind |-> CallResult(a, call).kind]

\* sent after session.sendToolResponse(r); first tells that r answers the
\* first call of a message
SendToolResponse(prev, r, first) ==
    [n |-> (IF first THEN 0 ELSE prev.n) + 1, id |-> r.id, name |-> r.name,
     kind |-> r.kind]

\* the fetch of the add_expense and delete_expense branches
Replication(call) ==
    IF call.name = "add_expense" THEN "POST /api/expenses"
    ELSE "DELETE /api/expenses/:id"

\* Date.now() counts milliseconds since 1970: the number an id stands for
\* in a request is the clock reading of the model above Epoch, far above
\* every row id the server hands out
Epoch == 1000

\* the number sent for an id
WireId(id) == IF id = NoSuchId THEN id ELSE Epoch + id

\* fetch(`/api/expenses/${id}`, { method: 'DELETE' })
DeleteRequest(id) ==
    [method |-> "DELETE", id |-> WireId(id), amount |-> 0, description |-> "",
     category |-> "", of |-> id]

\* the request of the add_expense and delete_expense branches: the body of
\* the POST is call.args, which holds no id
Request(call) ==
    IF call.name = "add_expense"
    THEN [method |-> "POST", id |-> NoSuchId, amount |-> call.amount,
          description |-> call.description, category |-> call.category, of |-> now]
    ELSE DeleteRequest(call.id)

\* one turn of "for (const call of message.toolCall.functionCalls)" in the
\* onmessage callback of attempt a, on its open session.  The turns of one
\* message run back to back (handling # NoRef keeps every other callback
\* out); more tells whether the message holds a further call.
OnToolCall(a, call, more) ==
    /\ pc[a] = "wired"
    /\ sess[a] = "open"
    /\ handling \in {NoRef, a}
    /\ IF more /\ callIdx + 1 < MaxBatch
       THEN handling' = a /\ callIdx' = callIdx + 1
       ELSE handling' = NoRef /\ callIdx' = 0
    /\ sent' = SendToolResponse(sent, ToolResponse(a, call, callIdx), callIdx = 0)
    /\ IF Mutating(call)
       THEN LET sv == saveLocalData(CallUpdated(a, call))
            IN  /\ expenses' = sv.expenses
                /\ summary' = sv.summary
                /\ stored' = sv.stored
                /\ inflight' = inflight \cup {Replication(call)}
                /\ outbox' = Request(call)
       ELSE UNCHANGED <<expenses, summary, stored, inflight, outbox>>
    /\ UNCHANGED <<sessionVars, clockVars, closureVars, playbackVars, gateVars, serverVars>>

\* a saveLocalData whose setExpenses ran before the failing setItem
saveLocalDataSetsFirst(newExpenses) ==
    [expenses |-> newExpenses, summary |-> summary, stored |-> stored]

\* the store after a saveLocalData whose localStorage.setItem throws: the
\* statements after it (setExpenses, updateSummary) do not run
saveLocalDataThrows(newExpenses) ==
    [expenses |-> expenses, summary |-> summary, stored |-> stored]

\* a turn of the functionCalls loop whose saveLocalData throws: onmessage
\* rejects, so the fetch, the response and the rest of the message are skipped
OnToolCallPersistFails(a, call) ==
    /\ pc[a] = "wired"
    /\ sess[a] = "open"
    /\ handling \in {NoRef, a}
    /\ Mutating(call)
    /\ handling' = NoRef
    /\ callIdx' = 0
    /\ LET sv == saveLocalDataThrows(CallUpdated(a, call))
       IN  /\ expenses' = sv.expenses
           /\ summary' = sv.summary
           /\ stored' = sv.stored
    /\ UNCHANGED <<netVars, sessionVars, clockVars, closureVars, playbackVars, gateVars, serverVars>>

\* the delete button when saveLocalData throws: the handler ends before fetch
UIDeletePersistFails(i) ==
    /\ i \in 1..Len(expenses)
    /\ LET sv == saveLocalDataThrows(WithoutId(expenses, expenses[i].id))
       IN  /\ expenses' = sv.expenses
           /\ summary' = sv.summary
           /\ stored' = sv.stored
    /\ UNCHANGED <<handling, callIdx, netVars, sessionVars, clockVars, closureVars,
                   playbackVars, gateVars, serverVars>>

\* how a fetch can settle
FetchOutcomes == {"2xx", "non-2xx", "network error"}

\* the delete button of a listed expense (the handler of the current render)
UIDelete(i) ==
    /\ i \in 1..Len(expenses)
    /\ LET sv == saveLocalData(WithoutId(expenses, expenses[i].id))
       IN  /\ expenses' = sv.expenses
           /\ summary' = sv.summary
           /\ stored' = sv.stored
    /\ inflight' = inflight \cup {"DELETE /api/expenses/:id"}
    /\ outbox' = DeleteRequest(expenses[i].id)
    /\ UNCHANGED <<handling, callIdx, sent, sessionVars, clockVars, closureVars, playbackVars, gateVars, serverVars>>

\* a settling that shows a failed replication in the status line
FetchSettledSurfaces(req, outcome) ==
    /\ req \in inflight
    /\ outcome \in FetchOutcomes
    /\ inflight' = inflight \ {req}
    /\ status' = IF outcome = "2xx" THEN status ELSE StatusConnError
    /\ UNCHANGED <<sent, outbox, storeVars, clockVars, closureVars, playbackVars, gateVars, serverVars>>
    /\ UNCHANGED <<isRecording, audioContextRef, streamRef, processorRef,
                   sessionRef, silenceTimerRef, timers, nextTimer, nAttempts, pc,
                   stream, sess, srcAnalyser, srcProc, procDest, fired, lateSend,
                   released>>

\* the fetch of a replication request settles: the response (2xx or not) is
\* never read, and a rejection is swallowed by .catch(() => {})
FetchSettled(req, outcome) ==
    /\ req \in inflight
    /\ outcome \in FetchOutcomes
    /\ inflight' = inflight \ {req}
    /\ UNCHANGED <<sent, outbox, storeVars, sessionVars, clockVars, closureVars, playbackVars, gateVars, serverVars>>

(* ---------------------------------------------------------------------- *)
(* The server: app.post and app.delete of /api/expenses                   *)
(* ---------------------------------------------------------------------- *)
\* app.post("/api/expenses"): find or create the category, insert a row
\* under the next AUTOINCREMENT id
ServerPost ==
    /\ outbox.method = "POST"
    /\ rowid < MaxRows
    /\ rowid' = rowid + 1
    /\ remote' = remote \cup {[id |-> rowid + 1, amount |-> outbox.amount,
                               description |-> outbox.description,
                               category_name |-> outbox.category, of |-> outbox.of]}
    /\ outbox' = NoRequest
    /\ UNCHANGED <<sent, inflight, storeVars, sessionVars, clockVars, closureVars,
                   playbackVars, gateVars>>

\* app.delete("/api/expenses/:id"): DELETE FROM expenses WHERE id = ?
ServerDelete ==
    /\ outbox.method = "DELETE"
    /\ remote' = {r \in remote : r.id # outbox.id}
    /\ outbox' = NoRequest
    /\ UNCHANGED <<rowid, sent, inflight, storeVars, sessionVars, clockVars,
                   closureVars, playbackVars, gateVars>>

(* ---------------------------------------------------------------------- *)
(* The lock screen: handleAuth and the lock button                        *)
(* ---------------------------------------------------------------------- *)
\* what the user may type into the password field
Passwords == {"", "abc", "abcd", "wxyz"}

\* handleAuth: the submit of the form on the lock screen
handleAuth(passwordInput) ==
    /\ IF isSetupNeeded
       THEN IF Len(passwordInput) < 4
            THEN UNCHANGED gateVars
            ELSE /\ storedPassword' = passwordInput
                 /\ isLocked' = FALSE
                 /\ isSetupNeeded' = FALSE
       ELSE IF storedPassword = passwordInput
            THEN /\ isLocked' = FALSE
                 /\ UNCHANGED <<isSetupNeeded, storedPassword>>
            ELSE UNCHANGED gateVars
    /\ UNCHANGED <<storeVars, netVars, sessionVars, clockVars, closureVars,
                   playbackVars, serverVars>>

\* the lock button of the header: setIsLocked(true), nothing else
LockClick ==
    /\ isLocked' = TRUE
    /\ UNCHANGED <<isSetupNeeded, storedPassword>>
    /\ UNCHANGED <<storeVars, netVars, sessionVars, clockVars, closureVars,
                   playbackVars, serverVars>>

\* time passes: Date.now() advances, and the calendar day may change
Tick(newDay) ==
    /\ now < MaxNow
    /\ newDay => today < MaxDay
    /\ now' = now + 1
    /\ today' = IF newDay THEN today + 1 ELSE today
    /\ UNCHANGED <<storeVars, netVars, sessionVars, closureVars, playbackVars, gateVars, serverVars>>

(* ---------------------------------------------------------------------- *)
(* Playback: the audio queue                                              *)
(* ---------------------------------------------------------------------- *)
\* the playback state the callbacks work on
PlaybackState ==
    [queue |-> audioQueue, playing |-> isPlaying, rendering |-> rendering,
     rendered |-> rendered]

\* a playNextInQueue without the isPlaying guard
playNextIgnoringFlag(st) ==
    IF Len(st.queue) = 0 THEN st
    ELSE [queue |-> Tail(st.queue),
          playing |-> TRUE,
          rendering |-> st.rendering \cup {Head(st.queue)},
          rendered |-> Append(st.rendered, Head(st.queue))]

\* playNextInQueue: return when the queue is empty or a chunk is playing, else
\* set the flag, shift the oldest chunk and start a buffer source for it
playNextInQueue(st) ==
    IF Len(st.queue) = 0 \/ st.playing THEN st
    ELSE [queue |-> Tail(st.queue),
          playing |-> TRUE,
          rendering |-> st.rendering \cup {Head(st.queue)},
          rendered |-> Append(st.rendered, Head(st.queue))]

\* audioQueue.current.push(bytes); playNextInQueue()
Enqueue(st, chunk) ==
    playNextInQueue([st EXCEPT !.queue = Append(@, chunk)])

\* the loop over modelTurn.parts: k inlineData parts, numbered from chunk on
RECURSIVE EnqueueParts(_, _, _)
EnqueueParts(st, chunk, k) ==
    IF k = 0 THEN st
    ELSE EnqueueParts(Enqueue(st, chunk), chunk + 1, k - 1)

\* an interruption that resets the flag and keeps the queue
InterruptedKeepsQueue(st) ==
    [st EXCEPT !.playing = FALSE]

\* if (message.serverContent?.interrupted): empty the queue, reset the flag
Interrupted(st) ==
    [st EXCEPT !.queue = <<>>, !.playing = FALSE]

\* part.text values of a message: none, or a fragment of the answer
Texts == {"", "Gasto registrado", "Total de hoje"}

SeqRange(q) == {q[i] : i \in 1..Len(q)}

\* onmessage with message.serverContent on the open session of attempt a:
\* k audio parts, a text part (text # "") or none, then the interrupted flag
OnServerContent(a, k, text, interrupted) ==
    /\ pc[a] = "wired"
    /\ sess[a] = "open"
    /\ k > 0 \/ text # "" \/ interrupted
    /\ nextChunk + k - 1 <= MaxChunks
    /\ nextChunk' = nextChunk + k
    /\ lastResponse' = IF text # "" THEN text ELSE lastResponse
    /\ LET st1 == EnqueueParts(PlaybackState, nextChunk, k)
           st2 == IF interrupted THEN Interrupted(st1) ELSE st1
       IN  /\ audioQueue' = st2.queue
           /\ isPlaying' = st2.playing
           /\ rendering' = st2.rendering
           /\ rendered' = st2.rendered
           /\ dropped' = IF interrupted THEN dropped \cup SeqRange(st1.queue) ELSE dropped
    /\ UNCHANGED <<sessionVars, storeVars, netVars, clockVars, closureVars, gateVars, serverVars>>

\* source.onended of the buffer source playing chunk c
OnEnded(c) ==
    /\ c \in rendering
    /\ LET st == playNextInQueue([PlaybackState EXCEPT !.rendering = @ \ {c},
                                                       !.playing = FALSE])
       IN  /\ audioQueue' = st.queue
           /\ isPlaying' = st.playing
           /\ rendering' = st.rendering
           /\ rendered' = st.rendered
    /\ UNCHANGED <<nextChunk, dropped, lastResponse, sessionVars, storeVars, netVars, clockVars,
                   closureVars, gateVars, serverVars>>

(* ---------------------------------------------------------------------- *)
(* Specifications                                                         *)
(* ---------------------------------------------------------------------- *)
\* no callback runs while onmessage is inside its functionCalls loop
Idle == handling = NoRef

NextSession ==
    \/ Idle /\ StopClick
    \/ Idle /\ StartNotSupported
    \/ Idle /\ StartClick(MaxAttempts)
    \/ \E a \in Attempts, ctx \in BOOLEAN, susp \in BOOLEAN :
          Idle /\ GumAdvancedOk(a, ctx, susp)
    \/ \E a \in Attempts : Idle /\ GumAdvancedFail(a)
    \/ \E a \in Attempts, ctx \in BOOLEAN, susp \in BOOLEAN :
          Idle /\ GumSimpleOk(a, ctx, susp)
    \/ \E a \in Attempts : Idle /\ GumSimpleFail(a)
    \/ \E a \in Attempts : Idle /\ ResumeDone(a)
    \/ \E a \in Attempts : Idle /\ ConnectReject(a)
    \/ \E a \in Attempts : Idle /\ OnOpen(a)
    \/ \E a \in Attempts : Idle /\ ConnectResolve(a)
    \/ \E a \in Attempts : Idle /\ OnClose(a)
    \/ \E a \in Attempts : Idle /\ OnError(a)
    \/ \E a \in Attempts : Idle /\ AudioProcess(a)
    \/ \E t \in timers : Idle /\ TimerFire(t)

SpecSession == Init /\ [][NextSession]_vars

\* an invocation of startRecording is between its first await and its end
SetupPending ==
    \E a \in Attempts : pc[a] \in {"gumAdvanced", "gumSimple", "resume", "connecting"}

\* the store under its mutations (tool calls and the delete button) and the
\* clock, in a session environment without failures: the microphone and the
\* audio context are granted, and the user waits for a start in progress
NextStore ==
    \/ Idle /\ StopClick
    \/ Idle /\ ~SetupPending /\ StartClick(MaxSessions)
    \/ \E a \in Attempts : Idle /\ GumAdvancedOk(a, TRUE, FALSE)
    \/ \E a \in Attempts : Idle /\ OnOpen(a)
    \/ \E a \in Attempts : Idle /\ ConnectResolve(a)
    \/ \E a \in Attempts, call \in AddCalls \cup DeleteCalls, more \in BOOLEAN :
          OnToolCall(a, call, more)
    \/ \E i \in 1..Len(expenses) : Idle /\ UIDelete(i)
    \/ \E newDay \in BOOLEAN : Idle /\ Tick(newDay)

SpecStore == Init /\ [][NextStore]_vars

\* the store during one session when localStorage may refuse a write
NextPersist ==
    \/ Idle /\ ~SetupPending /\ StartClick(MaxSessions)
    \/ \E a \in Attempts : Idle /\ GumAdvancedOk(a, TRUE, FALSE)
    \/ \E a \in Attempts : Idle /\ OnOpen(a)
    \/ \E a \in Attempts : Idle /\ ConnectResolve(a)
    \/ \E a \in Attempts, call \in AddCalls \cup DeleteCalls, more \in BOOLEAN :
          OnToolCall(a, call, more)
    \/ \E i \in 1..Len(expenses) : Idle /\ UIDelete(i)
    \/ \E newDay \in BOOLEAN : Idle /\ Tick(newDay)
    \/ \E a \in Attempts, call \in AddCalls \cup DeleteCalls : OnToolCallPersistFails(a, call)
    \/ \E i \in 1..Len(expenses) : Idle /\ UIDeletePersistFails(i)

SpecPersist == Init /\ [][NextPersist]_vars

\* every stored id lies in the past: the clock has advanced since the last
\* expense was created
ClockAdvanced == \A i \in 1..Len(expenses) : expenses[i].id < now

\* the store when a session is started at a later clock value than every
\* expense created so far (a start takes a user gesture, a permission
\* request and a connection)
NextIds ==
    \/ Idle /\ StopClick
    \/ Idle /\ ~SetupPending /\ ClockAdvanced /\ StartClick(MaxSessions)
    \/ \E a \in Attempts : Idle /\ GumAdvancedOk(a, TRUE, FALSE)
    \/ \E a \in Attempts : Idle /\ OnOpen(a)
    \/ \E a \in Attempts : Idle /\ ConnectResolve(a)
    \/ \E a \in Attempts, call \in AddCalls \cup DeleteCalls, more \in BOOLEAN :
          OnToolCall(a, call, more)
    \/ \E i \in 1..Len(expenses) : Idle /\ UIDelete(i)
    \/ \E newDay \in BOOLEAN : Idle /\ Tick(newDay)

SpecIds == Init /\ [][NextIds]_vars

\* the tool-call executor of one session under every call the assistant may
\* send, declared or not, with valid arguments or not
NextExecutor ==
    \/ Idle /\ ~SetupPending /\ StartClick(MaxSessions)
    \/ \E a \in Attempts : Idle /\ GumAdvancedOk(a, TRUE, FALSE)
    \/ \E a \in Attempts : Idle /\ OnOpen(a)
    \/ \E a \in Attempts : Idle /\ ConnectResolve(a)
    \/ \E a \in Attempts, call \in AllCalls, more \in BOOLEAN : OnToolCall(a, call, more)

SpecExecutor == Init /\ [][NextExecutor]_vars

\* the mutations with their replication requests, which settle at any time
NextReplication ==
    \/ Idle /\ StopClick
    \/ Idle /\ ~SetupPending /\ StartClick(MaxSessions)
    \/ \E a \in Attempts : Idle /\ GumAdvancedOk(a, TRUE, FALSE)
    \/ \E a \in Attempts : Idle /\ OnOpen(a)
    \/ \E a \in Attempts : Idle /\ ConnectResolve(a)
    \/ \E a \in Attempts, call \in AddCalls \cup DeleteCalls, more \in BOOLEAN :
          OnToolCall(a, call, more)
    \/ \E i \in 1..Len(expenses) : Idle /\ UIDelete(i)
    \/ \E req \in inflight, outcome \in FetchOutcomes : Idle /\ FetchSettled(req, outcome)

SpecReplication == Init /\ [][NextReplication]_vars

\* sessions of the playback specifications: no failures, starts one at a time
QuietSession ==
    \/ Idle /\ StopClick
    \/ Idle /\ ~SetupPending /\ StartClick(MaxSessions)
    \/ \E a \in Attempts : Idle /\ GumAdvancedOk(a, TRUE, FALSE)
    \/ \E a \in Attempts : Idle /\ OnOpen(a)
    \/ \E a \in Attempts : Idle /\ ConnectResolve(a)

\* the lifecycle of granted sessions: every cause of teardown, no setup
\* failure, and a user who waits for the start in progress before clicking
NextLifecycle ==
    \/ Idle /\ StopClick
    \/ Idle /\ ~SetupPending /\ StartClick(MaxAttempts)
    \/ \E a \in Attempts : Idle /\ GumAdvancedOk(a, TRUE, FALSE)
    \/ \E a \in Attempts : Idle /\ OnOpen(a)
    \/ \E a \in Attempts : Idle /\ ConnectResolve(a)
    \/ \E a \in Attempts : Idle /\ OnClose(a)
    \/ \E a \in Attempts : Idle /\ OnError(a)
    \/ \E a \in Attempts : Idle /\ AudioProcess(a)
    \/ \E t \in timers : Idle /\ TimerFire(t)

SpecLifecycle == Init /\ [][NextLifecycle]_vars

\* starting a recording with every outcome of the acquisition: no capture
\* API, either getUserMedia request rejected, no AudioContext, a rejected
\* connect; the user waits for the start in progress before clicking
NextAcquire ==
    \/ Idle /\ StopClick
    \/ Idle /\ StartNotSupported
    \/ Idle /\ ~SetupPending /\ StartClick(MaxAttempts)
    \/ \E a \in Attempts, ctx \in BOOLEAN, susp \in BOOLEAN :
          Idle /\ GumAdvancedOk(a, ctx, susp)
    \/ \E a \in Attempts : Idle /\ GumAdvancedFail(a)
    \/ \E a \in Attempts, ctx \in BOOLEAN, susp \in BOOLEAN :
          Idle /\ GumSimpleOk(a, ctx, susp)
    \/ \E a \in Attempts : Idle /\ GumSimpleFail(a)
    \/ \E a \in Attempts : Idle /\ ResumeDone(a)
    \/ \E a \in Attempts : Idle /\ ConnectReject(a)
    \/ \E a \in Attempts : Idle /\ OnOpen(a)
    \/ \E a \in Attempts : Idle /\ ConnectResolve(a)

SpecAcquire == Init /\ [][NextAcquire]_vars

\* the app behind its lock screen.  The overlay of the lock screen covers
\* the page while isLocked, so the record button and the lock button take
\* clicks only when it is gone, and the form submits only while it shows.
NextGate ==
    \/ \E passwordInput \in Passwords : Idle /\ isLocked /\ handleAuth(passwordInput)
    \/ Idle /\ ~isLocked /\ LockClick
    \/ Idle /\ ~isLocked /\ StopClick
    \/ Idle /\ ~isLocked /\ ~SetupPending /\ StartClick(MaxAttempts)
    \/ \E a \in Attempts : Idle /\ GumAdvancedOk(a, TRUE, FALSE)
    \/ \E a \in Attempts : Idle /\ OnOpen(a)
    \/ \E a \in Attempts : Idle /\ ConnectResolve(a)
    \/ \E a \in Attempts : Idle /\ OnClose(a)

SpecGate == Init /\ [][NextGate]_vars

\* the local store and the server: single-call messages, and every request
\* reaches the server before the next one is sent
NextRemote ==
    \/ Idle /\ ~SetupPending /\ StartClick(MaxSessions)
    \/ \E a \in Attempts : Idle /\ GumAdvancedOk(a, TRUE, FALSE)
    \/ \E a \in Attempts : Idle /\ OnOpen(a)
    \/ \E a \in Attempts : Idle /\ ConnectResolve(a)
    \/ \E a \in Attempts, call \in AddCalls \cup DeleteCalls :
          outbox = NoRequest /\ OnToolCall(a, call, FALSE)
    \/ \E i \in 1..Len(expenses) : Idle /\ outbox = NoRequest /\ UIDelete(i)
    \/ ServerPost
    \/ ServerDelete
    \/ \E newDay \in BOOLEAN : Idle /\ Tick(newDay)

SpecRemote == Init /\ [][NextRemote]_vars

\* playback with interruptions: messages of audio parts only
NextPlayback ==
    \/ QuietSession
    \/ \E a \in Attempts, k \in 0..MaxParts, interrupted \in BOOLEAN :
          Idle /\ OnServerContent(a, k, "", interrupted)
    \/ \E c \in rendering : Idle /\ OnEnded(c)

SpecPlayback == Init /\ [][NextPlayback]_vars

\* every started buffer source ends: the audio context plays it to its end
PlaybackFairness == \A c \in 1..MaxChunks : WF_vars(Idle /\ OnEnded(c))

\* playback when the assistant is never interrupted
NextEnqueue ==
    \/ QuietSession
    \/ \E a \in Attempts, k \in 0..MaxParts, text \in Texts :
          Idle /\ OnServerContent(a, k, text, FALSE)
    \/ \E c \in rendering : Idle /\ OnEnded(c)

SpecEnqueue == Init /\ [][NextEnqueue]_vars /\ PlaybackFairness

Next ==
    \/ NextSession
    \/ NextStore
    \/ NextPlayback

Spec == Init /\ [][Next]_vars

(* ---------------------------------------------------------------------- *)
(* Properties                                                             *)
(* ---------------------------------------------------------------------- *)
\* the sum of the amounts of the entries of list at the positions in idx
RECURSIVE AmountAt(_, _)
AmountAt(list, idx) ==
    IF idx = {} THEN 0
    ELSE LET i == CHOOSE j \in idx : TRUE
         IN  list[i].amount + AmountAt(list, idx \ {i})

RECURSIVE TotalOf(_, _)
TotalOf(buckets, idx) ==
    IF idx = {} THEN 0
    ELSE LET i == CHOOSE j \in idx : TRUE
         IN  buckets[i].total + TotalOf(buckets, idx \ {i})

\* sm is the summary of list on the given day: daily is the sum over the
\* expenses of that day, every expense belongs to exactly one bucket, a bucket
\* totals the expenses of its category, and the buckets add up to the whole
SummaryOf(list, sm, day) ==
    LET all == 1..Len(list)
        buckets == 1..Len(sm.byCategory)
    IN  /\ sm.daily = AmountAt(list, {i \in all : list[i].date = day})
        /\ TotalOf(sm.byCategory, buckets) = AmountAt(list, all)
        /\ \A i \in all :
              Cardinality({b \in buckets :
                              sm.byCategory[b].name = list[i].category_name}) = 1
        /\ \A b \in buckets :
              sm.byCategory[b].total =
                 AmountAt(list, {i \in all :
                                    list[i].category_name = sm.byCategory[b].name})

\* C1: the stored list is the collection, the summary is the summary of the
\* collection for the day it was computed on, and every step that changes the
\* collection or the summary (an add_expense, a delete_expense, a UI
\* deletion) leaves the summary of the current day: daily is the sum of the
\* amounts dated today, the byCategory totals add up to the sum of all
\* amounts and every expense is counted in exactly one bucket.
C1_SummaryAfterMutation ==
    /\ [](/\ stored = expenses
          /\ \E day \in 0..today : SummaryOf(expenses, summary, day))
    /\ [][(expenses' # expenses \/ summary' # summary) =>
             SummaryOf(expenses', summary', today')]_vars

\* C1 witness: an old expense and one of today in two categories, summarised
C1_Witness ==
    /\ Len(expenses) = 2
    /\ expenses[1].date # today
    /\ expenses[2].date = today
    /\ expenses[1].category_name # expenses[2].category_name
    /\ summary.daily = expenses[2].amount
    /\ Len(summary.byCategory) = 2

\* C2: an add_expense tool call keeps every stored expense and appends
\* exactly one (claimed; the callback appends to the list it closed over).
C2_AddKeepsStored ==
    [][\A a \in Attempts, call \in AddCalls, more \in BOOLEAN :
          OnToolCall(a, call, more) =>
             /\ Len(expenses') = Len(expenses) + 1
             /\ SubSeq(expenses', 1, Len(expenses)) = expenses]_vars

GetExpensesCall ==
    [name |-> "get_expenses", amount |-> 0, description |-> "", category |-> "", id |-> 0]
GetSummaryCall ==
    [name |-> "get_summary", amount |-> 0, description |-> "", category |-> "", id |-> 0]
DeleteMissingCall ==
    [name |-> "delete_expense", amount |-> 0, description |-> "", category |-> "",
     id |-> NoSuchId]

\* C3: on every open session get_summary answers with the current summary
\* and get_expenses with the current collection (claimed; the callback
\* answers with the values it closed over).
C3_ReadsCurrent ==
    \A a \in Attempts :
        (pc[a] = "wired" /\ sess[a] = "open") =>
            /\ CallResult(a, GetSummaryCall).summary = summary
            /\ CallResult(a, GetExpensesCall).items = expenses

\* C4: delete_expense with an id no stored expense has leaves the collection
\* and the per-category summary as they are and acknowledges success
\* (claimed; the callback saves the list it closed over).
C4_DeleteMissingNoop ==
    [][\A a \in Attempts, more \in BOOLEAN :
          OnToolCall(a, DeleteMissingCall, more) =>
             /\ expenses' = expenses
             /\ stored' = stored
             /\ summary'.byCategory = summary.byCategory
             /\ CallResult(a, DeleteMissingCall).status = "success"]_vars

\* C5: at most one chunk is rendering at any time (claimed; an interruption
\* resets the flag while the source keeps playing).
C5_OneRendering == Cardinality(rendering) <= 1

\* C6: without interruptions the chunks are rendered in enqueue order, each
\* exactly once, one at a time, a chunk starting only when no other is
\* rendering, and every chunk enqueued is eventually rendered.
C6_RenderedInOrder ==
    /\ [](\A i \in 1..Len(rendered) : rendered[i] = i)
    /\ [](Cardinality(rendering) <= 1)
    /\ [][rendered' # rendered =>
             /\ Len(rendered') = Len(rendered) + 1
             /\ rendering' = {rendered'[Len(rendered')]}
             /\ \/ rendering = {}
                \/ \E c \in rendering : Idle /\ OnEnded(c)]_vars
    /\ \A c \in 1..MaxChunks : (nextChunk > c) ~> (c \in SeqRange(rendered))

\* C6 witness: three chunks were enqueued and all three were rendered
C6_Witness ==
    /\ nextChunk = 4
    /\ rendered = <<1, 2, 3>>
    /\ rendering = {}
    /\ audioQueue = <<>>

\* C7: an interruption empties the queue and resets the flag in one step, no
\* chunk it removed is ever rendered, and the next chunk enqueued is rendered
\* at once.
C7_InterruptionClears ==
    /\ [](dropped \cap SeqRange(rendered) = {})
    /\ [][\A a \in Attempts, text \in Texts :
             OnServerContent(a, nextChunk' - nextChunk, text, TRUE) =>
                audioQueue' = <<>> /\ ~isPlaying']_vars
    /\ [][(audioQueue = <<>> /\ ~isPlaying /\ nextChunk' > nextChunk) =>
             nextChunk \in SeqRange(rendered')]_vars

\* C7 witness: a chunk was removed by an interruption and a later one rendered
C7_Witness ==
    /\ dropped # {}
    /\ \E c \in SeqRange(rendered) : \A d \in dropped : c > d

\* C8: the silence timeout of a session fires at most once, at most one
\* silence timer is pending, and no timer is pending outside the ref
\* (claimed; the processor keeps receiving blocks after stopRecording).
C8_SilenceTimerOnce ==
    /\ \A a \in Attempts : fired[a] <= 1
    /\ Cardinality(timers) <= 1
    /\ silenceTimerRef = NoRef => timers = {}

\* a step in which stopRecording runs
StopStep ==
    \/ StopClick
    \/ \E a \in Attempts : OnClose(a) \/ OnError(a)
    \/ \E t \in timers : TimerFire(t)

\* C9: after stopRecording no microphone track is live, no node of the
\* capture graph is connected, no silence timer is pending and no session is
\* connecting or open (claimed).
C9_StopReleasesAll ==
    [][StopStep =>
          /\ \A a \in Attempts :
                /\ stream'[a] # "live"
                /\ ~srcAnalyser'[a] /\ ~srcProc'[a] /\ ~procDest'[a]
                /\ sess'[a] \notin {"connecting", "open"}
          /\ timers' = {}]_vars

\* C10: at most one session is connecting or open (claimed; a second click
\* before onopen starts a second session).
C10_OneLiveSession ==
    Cardinality({a \in Attempts : sess[a] \in {"connecting", "open"}}) <= 1

\* a further run of stopRecording would change nothing
StopIsNoop ==
    /\ StopTracks(stream) = stream
    /\ DisconnectProcessor(procDest) = procDest
    /\ ClearSilenceTimer(timers) = timers
    /\ CloseSession(sess) = sess
    /\ ReleaseCalls(released) = released
    /\ streamRef = NoRef /\ processorRef = NoRef
    /\ silenceTimerRef = NoRef /\ sessionRef = NoRef
    /\ ~isRecording
    /\ status = StatusIdle

\* C11: whatever triggers of stopRecording hit a session and in whatever
\* order, close() is called at most once on a session, track.stop() at most
\* once on a stream, disconnect() at most once on a processor and
\* clearTimeout() at most once on a timer; and in the state a run of
\* stopRecording leaves, running it again changes nothing.
C11_CloseIdempotent ==
    /\ [](\A a \in Attempts :
             /\ released.close[a] <= 1
             /\ released.tracks[a] <= 1
             /\ released.disconnect[a] <= 1)
    /\ [](\A t \in 1..MaxTimers : released.clear[t] <= 1)
    /\ [][StopStep => StopIsNoop']_vars

\* C11 witness: the silence timeout closed a session and its close event,
\* a second trigger on the same session, ran stopRecording again
C11_Witness ==
    \E a \in Attempts :
        /\ fired[a] = 1
        /\ sess[a] = "closed"
        /\ released.close[a] = 1
        /\ released.tracks[a] = 1
        /\ released.disconnect[a] = 1

\* C12: every call of a tool-call message, whatever its name, is answered in
\* its own turn by exactly one response, which carries the id and the name
\* of that call: after the call at position k the message has k + 1 responses.
C12_OneResponsePerCall ==
    [][\A a \in Attempts, call \in AllCalls, more \in BOOLEAN :
          OnToolCall(a, call, more) =>
             /\ sent'.n = callIdx + 1
             /\ sent'.id = callIdx
             /\ sent'.name = call.name]_vars

\* C12 witness: the second call of a message, with an undeclared name, answered
C12_Witness ==
    /\ sent.n = 2
    /\ sent.id = 1
    /\ sent.name = "unknown_tool"

\* C13: a call with an undeclared name is answered with a payload marked
\* UnsupportedTool and leaves the store as it is (claimed; result stays
\* undefined and the response carries no marker).
C13_UnsupportedTool ==
    [][\A a \in Attempts, call \in UnknownCalls, more \in BOOLEAN :
          OnToolCall(a, call, more) =>
             /\ sent'.kind = "UnsupportedTool"
             /\ UNCHANGED <<expenses, summary, stored>>]_vars

\* C14: an add_expense call without description or without category creates
\* no expense and leaves collection and summary unchanged (claimed; the
\* arguments are used as they come).
C14_AddValidates ==
    [][\A a \in Attempts, call \in InvalidAddCalls, more \in BOOLEAN :
          OnToolCall(a, call, more) =>
             UNCHANGED <<expenses, summary, stored>>]_vars

\* C15: the settling of a replication request, with whatever outcome, changes
\* nothing but the set of pending requests, every outcome leaves the same
\* state, and the response to a mutating call is sent in the turn that
\* issues the request, while the request is still pending.
C15_ReplicationSwallowed ==
    /\ [][\A req \in inflight, outcome \in FetchOutcomes :
             FetchSettled(req, outcome) =>
                /\ UNCHANGED <<expenses, summary, stored, status, sent, lastResponse,
                               isRecording, handling, callIdx>>
                /\ \A other \in FetchOutcomes : FetchSettled(req, other)]_vars
    /\ [][\A a \in Attempts, call \in AddCalls \cup DeleteCalls, more \in BOOLEAN :
             OnToolCall(a, call, more) =>
                /\ sent'.name = call.name
                /\ Replication(call) \in inflight']_vars

\* C15 witness: an expense was added through a tool call, the call was
\* answered and its replication request has settled
C15_Witness ==
    /\ Len(expenses) = 2
    /\ sent.name = "add_expense"
    /\ inflight = {}

\* C16: when an invocation of startRecording fails, its stream is not live,
\* no ref holds its stream or its processor, its source is not connected and
\* the system is not recording (claimed; the catch block only sets the status).
C16_FailureReleases ==
    [][\A a \in Attempts :
          (pc[a] # "failed" /\ pc'[a] = "failed") =>
             /\ stream'[a] # "live"
             /\ streamRef' # a
             /\ processorRef' # a
             /\ ~srcAnalyser'[a]
             /\ ~isRecording']_vars

\* the state the specification calls Idle: not recording, every slot empty
IdleState ==
    /\ ~isRecording
    /\ streamRef = NoRef
    /\ processorRef = NoRef
    /\ silenceTimerRef = NoRef
    /\ sessionRef = NoRef

\* C17: each of explicit stop, remote close, remote error and silence
\* timeout leaves the system Idle in the same step, whatever state it hits
\* (another teardown under way included); a session that was closed or is
\* closing never becomes open again; and from Idle the next click starts.
C17_TeardownEndsIdle ==
    /\ [][StopStep => IdleState']_vars
    /\ [][\A a \in Attempts :
             sess[a] \in {"closing", "closed"} => sess'[a] \in {"closing", "closed"}]_vars
    /\ [][(IdleState /\ nAttempts' # nAttempts) =>
             pc'[nAttempts'] = "gumAdvanced"]_vars

\* C17 witness: a session was torn down by the silence timeout and closed,
\* and the session started after it is open
C17_Witness ==
    \E a \in Attempts, b \in Attempts :
        /\ a < b
        /\ fired[a] = 1
        /\ sess[a] = "closed"
        /\ sess[b] = "open"
        /\ isRecording

C19_PersistThenRecompute ==
    /\ [](/\ stored = expenses
          /\ \E day \in 0..today : summary = updateSummary(expenses, day))
    /\ [][(<<expenses, summary, stored>>' # <<expenses, summary, stored>>) =>
             /\ \A a \in Attempts, call \in AddCalls \cup DeleteCalls :
                   ~OnToolCallPersistFails(a, call)
             /\ \A i \in 1..Len(expenses) : ~UIDeletePersistFails(i)]_vars

\* C19 witness: the collection was changed through both paths: the mounted
\* expense was deleted with the button and another was added by a tool call
C19_Witness ==
    /\ Len(expenses) = 1
    /\ expenses[1].id # 0
    /\ stored = expenses
    /\ summary.daily = expenses[1].amount

\* C20: a remote session error, a rejected connect and a rejected microphone
\* request each leave the system not recording with the idle status text
\* (claimed; the catch block leaves its error text in the status).
C20_FailureStatusIdle ==
    [][(\E a \in Attempts : OnError(a) \/ ConnectReject(a) \/ GumSimpleFail(a)) =>
          /\ status' = StatusIdle
          /\ ~isRecording']_vars

\* C21: a rejected fallback request sets the permission-denied text exactly
\* when the error is a permission denial and never the not-supported text;
\* a missing capture API and a missing AudioContext set the not-supported
\* text; the permission-denied text appears only in the step where the
\* fallback request of an invocation is rejected; and an invocation issues
\* the fallback request only from the rejection of its preferred request,
\* holding no stream.
C21_FailureKinds ==
    /\ [][\A a \in Attempts, errName \in GumErrors :
             GumSimpleRejects(a, errName) =>
                /\ (status' = StatusDenied) <=> (errName = "NotAllowedError")
                /\ status' # StatusUnsupported]_vars
    /\ [][StartNotSupported => status' = StatusUnsupported]_vars
    /\ [][\A a \in Attempts :
             (pc[a] # "failed" /\ pc'[a] = "failed" /\ stream[a] = "none"
                /\ stream'[a] = "live") => status' = StatusUnsupported]_vars
    /\ [][(status' = StatusDenied /\ status # StatusDenied) =>
             \E a \in Attempts : pc[a] = "gumSimple" /\ pc'[a] = "failed"]_vars
    /\ [][\A a \in Attempts :
             (pc[a] # "gumSimple" /\ pc'[a] = "gumSimple") =>
                pc[a] = "gumAdvanced" /\ stream'[a] = "none"]_vars

\* C21 witness: one invocation ended for want of an AudioContext, the next
\* had both getUserMedia requests rejected and the status tells the denial
C21_Witness ==
    \E a \in Attempts, b \in Attempts :
        /\ a < b
        /\ pc[a] = "failed" /\ stream[a] = "live"
        /\ pc[b] = "failed" /\ stream[b] = "none"
        /\ status = StatusDenied

\* C23: the close or error event of a session leaves the stream, the
\* processor, the silence timer and the handle of every session started
\* after it as they were (claimed; stopRecording releases whatever the
\* shared refs hold).
C23_EventOwnSession ==
    [][\A a \in Attempts, b \in Attempts :
          (a < b /\ (OnClose(a) \/ OnError(a))) =>
             /\ stream'[b] = stream[b]
             /\ sess'[b] = sess[b]
             /\ procDest'[b] = procDest[b]
             /\ streamRef = b => streamRef' = b
             /\ processorRef = b => processorRef' = b
             /\ sessionRef = b => sessionRef' = b
             /\ \A t \in timers : t.owner = b => t \in timers']_vars

\* C24: every expense of the collection after a step was in the collection
\* before the step or is created in the step: none that was removed comes
\* back (claimed; a tool call writes the list its handler captured).
C24_DeletedStaysDeleted ==
    [][\A i \in 1..Len(expenses') :
          \/ \E j \in 1..Len(expenses) : expenses[j] = expenses'[i]
          \/ /\ expenses'[i].id = now
             /\ Len(expenses') = i]_vars

\* C26: an audioprocess event of a session that is closing or closed calls
\* sendRealtimeInput on no such session and starts no timer (claimed; the
\* source stays connected to the processor and the callback tests nothing).
C26_NoCaptureAfterClose ==
    [][\A a \in Attempts :
          (sess[a] \in {"closing", "closed"} /\ AudioProcess(a)) =>
             /\ ~lateSend'[a]
             /\ timers' \subseteq timers]_vars

\* C22: the app leaves the locked state only by handleAuth, with a password
\* of at least 4 characters when none is stored and with the stored one
\* otherwise; and while the app is locked nothing records: isRecording is
\* false, no invocation of startRecording is under way, no stream is live
\* and no session is connecting or open (claimed; the lock button only sets
\* isLocked).
C22_GateGuardsPipeline ==
    /\ [][(isLocked /\ ~isLocked') =>
             \E passwordInput \in Passwords :
                /\ handleAuth(passwordInput)
                /\ IF storedPassword = "" THEN Len(passwordInput) >= 4
                   ELSE passwordInput = storedPassword]_vars
    /\ [](isLocked =>
             /\ ~isRecording
             /\ ~SetupPending
             /\ \A a \in Attempts :
                   stream[a] # "live" /\ sess[a] \notin {"connecting", "open"})

\* C25: once the server handled the DELETE request for an expense, its
\* table holds no row that the POST request for that expense created
\* (claimed; the DELETE carries the local id, the row has the server's).
C25_DeleteRemovesPosted ==
    [][ServerDelete => \A r \in remote' : r.of # outbox.of]_vars

====
